---- MODULE Spec2Model ----
(***************************************************************************)
(* Model of the tabular aggregation engine of kduckets/likert-chart:       *)
(* the filter step, the group aggregator (LikertChart, stacked bars),      *)
(* the two-category comparator (LikertChart, diverging bars) and the       *)
(* pivot aggregator (PivotChart).                                          *)
(*                                                                         *)
(* A JavaScript string is a sequence of one-character strings, so that     *)
(* trim, split(", "), join("|"), parseFloat, Number and the default sort   *)
(* are computed on the characters as the code computes them.               *)
(***************************************************************************)
EXTENDS Integers, Sequences, FiniteSets, TLC

VARIABLES
    component,        \* which chart component holds the data
    data,             \* DataItem[]: the parsed rows handed to processData
    filters,          \* Record<string, string[]>: column -> allow-list
    conditionColumn,  \* the selected condition column
    selectedColumns,  \* the selected measure columns (group aggregator)
    responseColumn,   \* the selected response column (comparator)
    pivotConfig,      \* PivotConfig {rows, columns, values}
    pc,               \* "ready": inputs set; "done": processData has returned
    filteredData,     \* the rows kept by the filter step of the last run
    conditionCounts,  \* group aggregator: [keys, total, counts] accumulator
    likertData,       \* group aggregator: the returned ProcessedDataItem[]
    stats,            \* comparator: [keys, left, right, total] accumulator
    compareData,      \* comparator: the returned {data, categories}
    pivotData,        \* pivot aggregator: the returned {rows, columns, values}
    availableColumns, \* the headers of the last parsed file
    filter,           \* the free-text condition filter (first LikertChart)
    error,            \* the error message shown, Null when there is none
    timers,           \* the pending setTimeout callbacks: [id, closure]
    cleanup,          \* the timer the effect's cleanup clears, 0 when none
    nextTimer,        \* the id the next setTimeout returns
    reader,           \* the files being read by a FileReader or file.text()
    event,            \* the handler or callback that ran last
    delivered,        \* FileUpload: the calls of onDataUpdate, oldest first
    file,             \* the file a parser or an upload handler is given
    parsed,           \* parseFile: the returned {headers, data}
    filterOptions     \* getFilterOptions: the returned FilterOption[]

engineVars == <<component, data, filters, conditionColumn, selectedColumns,
                responseColumn, pivotConfig, pc, filteredData,
                conditionCounts, likertData, stats, compareData, pivotData>>

uiVars == <<availableColumns, filter, error, timers, cleanup, nextTimer,
            reader, event>>

ioVars == <<delivered, file, parsed, filterOptions>>

vars == <<engineVars, uiVars, ioVars>>

----------------------------------------------------------------------------
(* Bounds of the model.                                                    *)

\* longest row sequence drawn from the row universe of a component
MaxRows == 2

\* the large group-aggregator inputs have between TopN - GroupSlack and
\* TopN + GroupSlack distinct condition tokens
GroupSlack == 2

----------------------------------------------------------------------------
(* Strings.                                                                *)

\* UTF-16 code units of the characters used, as the default sort and the
\* relational operators of JavaScript compare them.
CharCode ==
    (" " :> 32) @@ ("," :> 44) @@ ("0" :> 48) @@ ("1" :> 49) @@ ("2" :> 50) @@
    ("3" :> 51) @@ ("4" :> 52) @@ ("5" :> 53) @@ ("6" :> 54) @@ ("7" :> 55) @@
    ("8" :> 56) @@ ("9" :> 57) @@
    ("A" :> 65) @@ ("B" :> 66) @@ ("C" :> 67) @@ ("D" :> 68) @@ ("E" :> 69) @@
    ("M" :> 77) @@ ("N" :> 78) @@ ("X" :> 88) @@ ("Y" :> 89) @@
    ("a" :> 97) @@ ("b" :> 98) @@ ("e" :> 101) @@ ("o" :> 111) @@
    ("s" :> 115) @@ ("x" :> 120) @@ ("y" :> 121) @@ ("|" :> 124)

IsSpace(c) == c \in {" ", "\r", "\n"}

IsDigit(c) == c \in {"0", "1", "2", "3", "4", "5", "6", "7", "8", "9"}

DigitValue(c) == CharCode[c] - 48

\* String.prototype.trim
RECURSIVE trimStart(_)
trimStart(s) ==
    IF s # <<>> /\ IsSpace(Head(s)) THEN trimStart(Tail(s)) ELSE s

RECURSIVE trimEnd(_)
trimEnd(s) ==
    IF s # <<>> /\ IsSpace(s[Len(s)])
    THEN trimEnd(SubSeq(s, 1, Len(s) - 1))
    ELSE s

trim(s) == trimEnd(trimStart(s))

\* TRUE iff sep occurs in s at position i
StartsAt(s, sep, i) ==
    /\ i + Len(sep) - 1 <= Len(s)
    /\ SubSeq(s, i, i + Len(sep) - 1) = sep

\* String.prototype.split(sep) for a non-empty separator: the pieces of s
\* between the successive occurrences of sep, scanned left to right; cur is
\* the piece being collected, i the next position to read.
RECURSIVE splitFrom(_, _, _, _)
splitFrom(s, sep, cur, i) ==
    IF i > Len(s) THEN <<cur>>
    ELSE IF StartsAt(s, sep, i)
         THEN <<cur>> \o splitFrom(s, sep, <<>>, i + Len(sep))
         ELSE splitFrom(s, sep, Append(cur, s[i]), i + 1)

split(s, sep) == splitFrom(s, sep, <<>>, 1)

\* Array.prototype.join(sep)
RECURSIVE join(_, _)
join(parts, sep) ==
    IF parts = <<>> THEN <<>>
    ELSE IF Len(parts) = 1 THEN parts[1]
    ELSE parts[1] \o sep \o join(Tail(parts), sep)

\* the value of a run of decimal digits
RECURSIVE DigitsValue(_, _)
DigitsValue(s, acc) ==
    IF s = <<>> THEN acc
    ELSE DigitsValue(Tail(s), 10 * acc + DigitValue(Head(s)))

\* the longest prefix of s made of digits
RECURSIVE DigitPrefix(_)
DigitPrefix(s) ==
    IF s # <<>> /\ IsDigit(Head(s))
    THEN <<Head(s)>> \o DigitPrefix(Tail(s))
    ELSE <<>>

\* Number.parseFloat: leading white space is skipped, the longest numeric
\* prefix is read, and the result is NaN when there is none.  The strings of
\* the model hold no sign, point or exponent, so the prefix is a digit run.
parseFloat(s) ==
    LET p == DigitPrefix(trimStart(s))
    IN  IF p = <<>> THEN [nan |-> TRUE, n |-> 0]
        ELSE [nan |-> FALSE, n |-> DigitsValue(p, 0)]

\* Number(s): white space is trimmed at both ends, the empty string is 0 and
\* the whole rest has to be numeric, else NaN.
Number(s) ==
    LET t == trim(s)
    IN  IF t = <<>> THEN [nan |-> FALSE, n |-> 0]
        ELSE IF DigitPrefix(t) = t THEN [nan |-> FALSE, n |-> DigitsValue(t, 0)]
        ELSE [nan |-> TRUE, n |-> 0]

\* a < b by UTF-16 code units, the order of Array.prototype.sort() without a
\* comparator and of the < operator on strings
RECURSIVE StrLess(_, _)
StrLess(a, b) ==
    IF b = <<>> THEN FALSE
    ELSE IF a = <<>> THEN TRUE
    ELSE IF CharCode[Head(a)] # CharCode[Head(b)]
         THEN CharCode[Head(a)] < CharCode[Head(b)]
         ELSE StrLess(Tail(a), Tail(b))

\* String.prototype.toLowerCase on the letters of the model
LowerCase ==
    ("A" :> "a") @@ ("B" :> "b") @@ ("C" :> "c") @@ ("D" :> "d") @@
    ("E" :> "e") @@ ("F" :> "f") @@ ("G" :> "g") @@ ("H" :> "h") @@
    ("I" :> "i") @@ ("J" :> "j") @@ ("K" :> "k") @@ ("L" :> "l") @@
    ("M" :> "m") @@ ("N" :> "n") @@ ("O" :> "o") @@ ("P" :> "p") @@
    ("Q" :> "q") @@ ("R" :> "r") @@ ("S" :> "s") @@ ("T" :> "t") @@
    ("U" :> "u") @@ ("V" :> "v") @@ ("W" :> "w") @@ ("X" :> "x") @@
    ("Y" :> "y") @@ ("Z" :> "z")

toLowerCase(s) ==
    [i \in DOMAIN s |-> IF s[i] \in DOMAIN LowerCase THEN LowerCase[s[i]]
                        ELSE s[i]]

\* String.prototype.includes
includes(s, sub) == \E i \in 1..(Len(s) + 1) : StartsAt(s, sub, i)

----------------------------------------------------------------------------
(* Arrays and objects.                                                     *)

Range(seq) == {seq[i] : i \in DOMAIN seq}

\* Array.from(new Set(seq)): the distinct elements in order of first
\* appearance
RECURSIVE Dedupe(_)
Dedupe(seq) ==
    IF seq = <<>> THEN <<>>
    ELSE LET init == Dedupe(SubSeq(seq, 1, Len(seq) - 1))
             last == seq[Len(seq)]
         IN  IF last \in Range(init) THEN init ELSE Append(init, last)

\* Array.prototype.sort(compare) for a consistent comparator; Before(a, b) is
\* compare(a, b) < 0.  The sort is stable: elements that compare equal keep
\* their order, so element i lands after every element that precedes it or
\* that compares equal and stood earlier.
StableSort(seq, Before(_, _)) ==
    LET pos(i) == 1 + Cardinality({j \in DOMAIN seq :
                        /\ j # i
                        /\ \/ Before(seq[j], seq[i])
                           \/ ~Before(seq[i], seq[j]) /\ j < i})
    IN  [p \in DOMAIN seq |-> seq[CHOOSE i \in DOMAIN seq : pos(i) = p]]

\* Object.keys / Object.entries order of a plain object whose keys were
\* inserted in the order `keys`: the canonical array indices first, in
\* ascending numeric order, then the other keys in insertion order.
IsArrayIndex(k) ==
    /\ k # <<>>
    /\ DigitPrefix(k) = k
    /\ Len(k) = 1 \/ Head(k) # "0"

IndexBefore(a, b) == DigitsValue(a, 0) < DigitsValue(b, 0)

NotArrayIndex(k) == ~IsArrayIndex(k)

ObjectKeys(keys) ==
    StableSort(SelectSeq(keys, IsArrayIndex), IndexBefore)
        \o SelectSeq(keys, NotArrayIndex)

\* a string is truthy iff it is not empty
Truthy(s) == s # <<>>

----------------------------------------------------------------------------
(* The filter step.                                                        *)

\* likert-chart.tsx processData (group aggregator): the raw cell has to be
\* in the allow-list
passesFilters_Group(item, f) ==
    \A column \in DOMAIN f :
        \/ f[column] = {}
        \/ item[column] \in f[column]

\* the kept rows taken from the second on, an off-by-one slice(1)
filteredData_GroupSliced(rows, f) ==
    LET keep(item) == passesFilters_Group(item, f)
        kept == SelectSeq(rows, keep)
    IN  IF kept = <<>> THEN kept ELSE Tail(kept)

filteredData_Group(rows, f) ==
    LET keep(item) == passesFilters_Group(item, f)
    IN  SelectSeq(rows, keep)

\* the comparator's test with the trim left out
passesFilters_CompareRaw(item, f) ==
    \A column \in DOMAIN f :
        \/ f[column] = {}
        \/ Truthy(item[column]) /\ item[column] \in f[column]

\* likert-chart.tsx processData (comparator): the trimmed cell has to be
\* non-empty and in the allow-list
passesFilters_Compare(item, f) ==
    \A column \in DOMAIN f :
        \/ f[column] = {}
        \/ LET itemValue == trim(item[column])
           IN  Truthy(itemValue) /\ itemValue \in f[column]

filteredData_Compare(rows, f) ==
    LET keep(item) == passesFilters_Compare(item, f)
    IN  SelectSeq(rows, keep)

\* String(v) of a cell that is a string is that string
String(v) == v

\* Object.entries(filters).some in place of every
passesFilters_PivotSome(item, f) ==
    \E column \in DOMAIN f :
        \/ f[column] = {}
        \/ String(item[column]) \in f[column]

\* pivot-chart.tsx processData: the stringified cell has to be in the
\* allow-list
passesFilters_Pivot(item, f) ==
    \A column \in DOMAIN f :
        \/ f[column] = {}
        \/ String(item[column]) \in f[column]

filteredData_Pivot(rows, f) ==
    LET keep(item) == passesFilters_Pivot(item, f)
    IN  SelectSeq(rows, keep)

----------------------------------------------------------------------------
(* The group aggregator: likert-chart.tsx processData (stacked bars).      *)

\* .slice(0, 20)
TopN == 20

CommaSpace == <<",", " ">>

EmptyCounts == [keys |-> <<>>, total |-> <<>>, counts |-> <<>>]

\* selectedColumns.forEach inside conditions.forEach: a non-empty cell adds
\* its number to counts[col], or 1 when it is not a number
RECURSIVE countColumns(_, _, _)
countColumns(counts, item, columns) ==
    IF columns = <<>> THEN counts
    ELSE LET col == Head(columns)
             value == item[col]
             numValue == parseFloat(value)
             next == IF Truthy(value)
                     THEN IF ~numValue.nan
                          THEN [counts EXCEPT ![col] = @ + numValue.n]
                          ELSE [counts EXCEPT ![col] = @ + 1]
                     ELSE counts
         IN  countColumns(next, item, Tail(columns))

\* selectedColumns.forEach((col) => (counts[col] = 0))
RECURSIVE zeroCounts(_)
zeroCounts(columns) ==
    IF columns = <<>> THEN <<>>
    ELSE (Head(columns) :> 0) @@ zeroCounts(Tail(columns))

\* total++ moved into an else branch: a condition's first row is not counted
addConditionElse(acc, item, condition, columns) ==
    LET fresh == condition \notin Range(acc.keys)
        created == IF fresh
                   THEN [keys |-> Append(acc.keys, condition),
                         total |-> acc.total @@ (condition :> 0),
                         counts |-> acc.counts @@
                                    (condition :> zeroCounts(columns))]
                   ELSE acc
    IN  [keys |-> created.keys,
         total |-> IF fresh THEN created.total
                   ELSE [created.total EXCEPT ![condition] = @ + 1],
         counts |-> [created.counts EXCEPT
                        ![condition] = countColumns(@, item, columns)]]

\* one pass of conditions.forEach for `condition` of `item`
addCondition(acc, item, condition, columns) ==
    LET fresh == condition \notin Range(acc.keys)
        created == IF fresh
                   THEN [keys |-> Append(acc.keys, condition),
                         total |-> acc.total @@ (condition :> 0),
                         counts |-> acc.counts @@
                                    (condition :> zeroCounts(columns))]
                   ELSE acc
    IN  [keys |-> created.keys,
         total |-> [created.total EXCEPT ![condition] = @ + 1],
         counts |-> [created.counts EXCEPT
                        ![condition] = countColumns(@, item, columns)]]

RECURSIVE addConditions(_, _, _, _)
addConditions(acc, item, conditions, columns) ==
    IF conditions = <<>> THEN acc
    ELSE addConditions(addCondition(acc, item, Head(conditions), columns),
                       item, Tail(conditions), columns)

\* the condition cell split on "," in place of ", "
countRowComma(acc, item, condCol, columns) ==
    IF ~Truthy(item[condCol]) THEN acc
    ELSE addConditions(acc, item, split(item[condCol], <<",">>), columns)

\* the body of filteredData.forEach: a row with an empty condition cell is
\* skipped, any other is counted once for every piece of its condition cell
countRow(acc, item, condCol, columns) ==
    IF ~Truthy(item[condCol]) THEN acc
    ELSE addConditions(acc, item, split(item[condCol], CommaSpace), columns)

\* filteredData.forEach, the rows taken in order.  The guard reads acc, so
\* that the counts of the rows taken so far are evaluated before the next
\* row is taken (TLC evaluates an argument when it is first read).
RECURSIVE countConditions(_, _, _, _)
countConditions(acc, rows, condCol, columns) ==
    IF rows = <<>> \/ acc.keys # acc.keys THEN acc
    ELSE countConditions(countRow(acc, Head(rows), condCol, columns),
                         Tail(rows), condCol, columns)

\* a reported value counts / total (or * 100) as the fraction num / den;
\* x / 0 || 0 is 0
Ratio(num, den) == IF den = 0 THEN [num |-> 0, den |-> 1]
                   ELSE [num |-> num, den |-> den]

RatioLess(a, b) == a.num * b.den < b.num * a.den

\* the record emitted for one entry of conditionCounts
groupRecord(rows, cc, condition, columns) ==
    [condition |-> condition,
     value |-> [col \in Range(columns) |->
        LET isNumeric == ~parseFloat(IF rows # <<>> THEN rows[1][col]
                                     ELSE <<>>).nan
        IN  IF isNumeric
            THEN Ratio(cc.counts[condition][col], cc.total[condition])
            ELSE Ratio(cc.counts[condition][col] * 100, cc.total[condition])]]

\* compare(a, b) = (b[first] || 0) - (a[first] || 0) < 0
firstMeasureDesc(columns, a, b) ==
    RatioLess(b.value[columns[1]], a.value[columns[1]])

\* the slice left out
sliceAll(seq, n) == seq

slice(seq, n) == SubSeq(seq, 1, IF Len(seq) < n THEN Len(seq) ELSE n)

processData_Group(rows, condCol, columns, f) ==
    IF rows = <<>>
    THEN [filtered |-> <<>>, counts |-> EmptyCounts, out |-> <<>>]
    ELSE LET filtered == filteredData_Group(rows, f)
             cc == countConditions(EmptyCounts, filtered, condCol, columns)
             entries == ObjectKeys(cc.keys)
             records == [i \in DOMAIN entries |->
                            groupRecord(rows, cc, entries[i], columns)]
             before(a, b) == firstMeasureDesc(columns, a, b)
         IN  [filtered |-> filtered,
              counts |-> cc,
              out |-> slice(StableSort(records, before), TopN)]

----------------------------------------------------------------------------
(* The two-category comparator: likert-chart.tsx processData (diverging    *)
(* bars).                                                                  *)

EmptyStats == [keys |-> <<>>, left |-> <<>>, right |-> <<>>, total |-> <<>>]

NoComparison ==
    [data |-> <<>>, categories |-> [left |-> <<>>, right |-> <<>>]]

\* uniqueResponses without .filter(Boolean)
uniqueResponsesUnfiltered(filtered, respCol) ==
    LET cells == [i \in DOMAIN filtered |-> filtered[i][respCol]]
    IN  StableSort(Dedupe(cells), StrLess)

\* uniqueResponses without .sort()
uniqueResponsesUnsorted(filtered, respCol) ==
    LET cells == [i \in DOMAIN filtered |-> filtered[i][respCol]]
    IN  SelectSeq(Dedupe(cells), Truthy)

\* uniqueResponses: the distinct response cells in order of first
\* appearance, the empty ones dropped, sorted by code units
uniqueResponsesOf(filtered, respCol) ==
    LET cells == [i \in DOMAIN filtered |-> filtered[i][respCol]]
    IN  StableSort(SelectSeq(Dedupe(cells), Truthy), StrLess)

\* the pass with a plain else: whatever is not the left category counts
\* as the right one
addResponseElse(acc, item, condCol, respCol, leftCategory, rightCategory) ==
    LET condition == item[condCol]
        response == item[respCol]
        fresh == condition \notin Range(acc.keys)
        created == IF fresh
                   THEN [keys |-> Append(acc.keys, condition),
                         left |-> acc.left @@ (condition :> 0),
                         right |-> acc.right @@ (condition :> 0),
                         total |-> acc.total @@ (condition :> 0)]
                   ELSE acc
        counted == [created EXCEPT !.total[condition] = @ + 1]
    IN  IF ~Truthy(condition) \/ ~Truthy(response) THEN acc
        ELSE IF response = leftCategory
             THEN [counted EXCEPT !.left[condition] = @ + 1]
        ELSE [counted EXCEPT !.right[condition] = @ + 1]

\* the pass with the condition cut at its first ", ", as the stacked-bar
\* chart reads its condition cells
addResponseSplit(acc, item, condCol, respCol, leftCategory, rightCategory) ==
    LET condition == split(item[condCol], CommaSpace)[1]
        response == item[respCol]
        fresh == condition \notin Range(acc.keys)
        created == IF fresh
                   THEN [keys |-> Append(acc.keys, condition),
                         left |-> acc.left @@ (condition :> 0),
                         right |-> acc.right @@ (condition :> 0),
                         total |-> acc.total @@ (condition :> 0)]
                   ELSE acc
        counted == [created EXCEPT !.total[condition] = @ + 1]
    IN  IF ~Truthy(condition) \/ ~Truthy(response) THEN acc
        ELSE IF response = leftCategory
             THEN [counted EXCEPT !.left[condition] = @ + 1]
        ELSE IF response = rightCategory
             THEN [counted EXCEPT !.right[condition] = @ + 1]
        ELSE counted

\* one pass of filteredData.forEach of the comparator
addResponse(acc, item, condCol, respCol, leftCategory, rightCategory) ==
    LET condition == item[condCol]
        response == item[respCol]
        fresh == condition \notin Range(acc.keys)
        created == IF fresh
                   THEN [keys |-> Append(acc.keys, condition),
                         left |-> acc.left @@ (condition :> 0),
                         right |-> acc.right @@ (condition :> 0),
                         total |-> acc.total @@ (condition :> 0)]
                   ELSE acc
        counted == [created EXCEPT !.total[condition] = @ + 1]
    IN  IF ~Truthy(condition) \/ ~Truthy(response) THEN acc
        ELSE IF response = leftCategory
             THEN [counted EXCEPT !.left[condition] = @ + 1]
        ELSE IF response = rightCategory
             THEN [counted EXCEPT !.right[condition] = @ + 1]
        ELSE counted

RECURSIVE countResponses(_, _, _, _, _, _)
countResponses(acc, rows, condCol, respCol, leftCategory, rightCategory) ==
    IF rows = <<>> THEN acc
    ELSE countResponses(
            addResponse(acc, Head(rows), condCol, respCol,
                        leftCategory, rightCategory),
            Tail(rows), condCol, respCol, leftCategory, rightCategory)

\* the record with leftValue not negated
compareRecordUnsigned(st, condition, leftCategory, rightCategory) ==
    [condition |-> condition,
     leftValue |-> st.left[condition],
     rightValue |-> st.right[condition],
     leftLabel |-> leftCategory,
     rightLabel |-> rightCategory,
     total |-> st.total[condition]]

\* the record emitted for one entry of stats
compareRecord(st, condition, leftCategory, rightCategory) ==
    [condition |-> condition,
     leftValue |-> 0 - st.left[condition],
     rightValue |-> st.right[condition],
     leftLabel |-> leftCategory,
     rightLabel |-> rightCategory,
     total |-> st.total[condition]]

\* the sort left out
totalUnordered(a, b) == FALSE

\* the comparator turned round: a.total - b.total
totalAsc(a, b) == a.total < b.total

\* compare(a, b) = b.total - a.total < 0
totalDesc(a, b) == b.total < a.total

processData_Compare(rows, condCol, respCol, f) ==
    IF rows = <<>> \/ respCol = ""
    THEN [filtered |-> <<>>, stats |-> EmptyStats, result |-> NoComparison]
    ELSE LET filtered == filteredData_Compare(rows, f)
             uniqueResponses == uniqueResponsesOf(filtered, respCol)
         IN  IF Len(uniqueResponses) < 2
             THEN [filtered |-> filtered, stats |-> EmptyStats,
                   result |-> NoComparison]
             ELSE LET leftCategory == uniqueResponses[1]
                      rightCategory == uniqueResponses[2]
                      st == countResponses(EmptyStats, filtered, condCol,
                                           respCol, leftCategory, rightCategory)
                      entries == ObjectKeys(st.keys)
                      records == [i \in DOMAIN entries |->
                          compareRecord(st, entries[i],
                                        leftCategory, rightCategory)]
                  IN  [filtered |-> filtered,
                       stats |-> st,
                       result |->
                          [data |-> StableSort(records, totalDesc),
                           categories |-> [left |-> leftCategory,
                                           right |-> rightCategory]]]

----------------------------------------------------------------------------
(* The pivot aggregator: pivot-chart.tsx processData.                      *)

Bar == <<"|">>

\* config.rows.map((row) => String(item[row])).join("|")
compositeKey(item, cols) ==
    join([i \in DOMAIN cols |-> String(item[cols[i]])], Bar)

\* config.values.map(() => 0)
zeroVector(config) == [i \in DOMAIN config.values |-> 0]

\* Number(cell) || 0
numberOrZero(cell) ==
    LET n == Number(cell) IN IF n.nan THEN 0 ELSE n.n

\* the accumulation with = in place of +=
RECURSIVE buildPivotTableAssign(_, _, _)
buildPivotTableAssign(table, rows, config) ==
    IF rows = <<>> THEN table
    ELSE LET item == Head(rows)
             key == <<compositeKey(item, config.rows),
                      compositeKey(item, config.columns)>>
             new == [i \in DOMAIN config.values |->
                        numberOrZero(item[config.values[i]])]
         IN  buildPivotTableAssign((key :> new) @@ table, Tail(rows), config)

\* filteredData.forEach: pivotTable as the function from the (rowKey, colKey)
\* pairs that were created to their vectors
RECURSIVE buildPivotTable(_, _, _)
buildPivotTable(table, rows, config) ==
    IF rows = <<>> THEN table
    ELSE LET item == Head(rows)
             key == <<compositeKey(item, config.rows),
                      compositeKey(item, config.columns)>>
             old == IF key \in DOMAIN table THEN table[key]
                    ELSE zeroVector(config)
             new == [i \in DOMAIN config.values |->
                        old[i] + numberOrZero(item[config.values[i]])]
         IN  buildPivotTable((key :> new) @@ table, Tail(rows), config)

\* the lookup without its fallback: a missing cell is left empty
pivotCellAbsent(table, row, col, config) ==
    IF <<row, col>> \in DOMAIN table THEN table[<<row, col>>]
    ELSE <<>>

\* pivotTable[row]?.[col] || config.values.map(() => 0)
pivotCell(table, row, col, config) ==
    IF <<row, col>> \in DOMAIN table THEN table[<<row, col>>]
    ELSE zeroVector(config)

\* the keys put in code-unit order
uniqueKeysSorted(filtered, cols) ==
    StableSort(Dedupe([i \in DOMAIN filtered |->
                          compositeKey(filtered[i], cols)]), StrLess)

\* Array.from(new Set(filteredData.map(...))): the composite keys of the
\* kept rows, each once, in order of first appearance
uniqueKeys(filtered, cols) ==
    Dedupe([i \in DOMAIN filtered |-> compositeKey(filtered[i], cols)])

processData_Pivot(rows, config, f) ==
    LET filtered == filteredData_Pivot(rows, f)
        uniqueRows == uniqueKeys(filtered, config.rows)
        uniqueColumns == uniqueKeys(filtered, config.columns)
        pivotTable == buildPivotTable(<<>>, filtered, config)
    IN  [filtered |-> filtered,
         result |->
            [rows |-> uniqueRows,
             columns |-> uniqueColumns,
             values |-> [i \in DOMAIN uniqueRows |->
                           [j \in DOMAIN uniqueColumns |->
                              pivotCell(pivotTable, uniqueRows[i],
                                        uniqueColumns[j], config)]]]]

----------------------------------------------------------------------------
(* The parser: parseFile of likert-chart.tsx and of the DataDashboard, the *)
(* csv branch on the characters of the text, the spreadsheet branch on     *)
(* what XLSX.utils.sheet_to_json hands back.                               *)

Comma == <<",">>

LineFeed == <<"\n">>

MapTrim(fields) == [i \in DOMAIN fields |-> trim(fields[i])]

\* values[index]?.trim() || ""
cellAt(values, index) ==
    IF index <= Len(values) /\ Truthy(trim(values[index]))
    THEN trim(values[index])
    ELSE <<>>

\* headers.reduce(...): a later header of the same name overwrites the
\* property an earlier one has set
LastIndexOf(headers, h) ==
    CHOOSE i \in DOMAIN headers :
        /\ headers[i] = h
        /\ \A j \in DOMAIN headers : headers[j] = h => j <= i

rowOfFirst(headers, line) ==
    LET values == split(line, Comma)
    IN  [h \in Range(headers) |-> cellAt(values, 1)]

\* the DataItem of one line
rowOf(headers, line) ==
    LET values == split(line, Comma)
    IN  [h \in Range(headers) |-> cellAt(values, LastIndexOf(headers, h))]

HasValue(item) == \E h \in DOMAIN item : Truthy(item[h])

keepAllLines(items) == items

\* .filter((item) => Object.values(item).some((v) => v))
keepValued(items) == SelectSeq(items, HasValue)

parseCsv(result) ==
    LET lines == split(result, LineFeed)
        headers == MapTrim(split(lines[1], Comma))
        items == [i \in 1..(Len(lines) - 1) |-> rowOf(headers, lines[i + 1])]
    IN  [threw |-> FALSE, headers |-> headers, data |-> keepValued(items)]

\* row[index]?.toString() || "": a spreadsheet cell is not trimmed
sheetCell(row, index) == IF index <= Len(row) THEN row[index] ELSE <<>>

sheetRow(headers, row) ==
    [h \in Range(headers) |-> sheetCell(row, LastIndexOf(headers, h))]

\* the spreadsheet branch: XLSX.read throws on content it cannot read, and
\* rawJsonData[0] is undefined for a sheet without rows
parseSheet(workbook) ==
    IF workbook.unreadable \/ workbook.sheet = <<>>
    THEN [threw |-> TRUE, headers |-> <<>>, data |-> <<>>]
    ELSE LET raw == workbook.sheet
             headers == MapTrim(raw[1])
             items == [i \in 1..(Len(raw) - 1) |-> sheetRow(headers, raw[i + 1])]
         IN  [threw |-> FALSE, headers |-> headers,
              data |-> keepValued(items)]

\* String.prototype.endsWith
endsWith(s, suffix) ==
    /\ Len(suffix) <= Len(s)
    /\ SubSeq(s, Len(s) - Len(suffix) + 1, Len(s)) = suffix

dotCsv == <<".", "c", "s", "v">>

dotXlsx == <<".", "x", "l", "s", "x">>

dotXls == <<".", "x", "l", "s">>

\* const fileType = file.name.endsWith(".csv") ? "csv" : "excel"
parseFile(f) ==
    IF endsWith(f.name, dotCsv) THEN parseCsv(f.content.text)
    ELSE parseSheet(f.content)

Digits == <<"0", "1", "2", "3", "4", "5", "6", "7", "8", "9">>

\* String(n) for a natural number
RECURSIVE NumToString(_)
NumToString(n) ==
    IF n < 10 THEN <<Digits[n + 1]>>
    ELSE Append(NumToString(n \div 10), Digits[(n % 10) + 1])

\* isNaN(Number(value)) ? value : Number(value); a number cell is kept as
\* the string String() makes of it
numberCell(value) ==
    IF Number(value).nan THEN value ELSE NumToString(Number(value).n)

\* .filter((item) => Object.values(item).some((v) => v !== ""))
NotBlank(item) == \E h \in DOMAIN item : item[h] # <<>>

\* parseFile of the PivotChart that reads files itself
parseCsvPivot(result) ==
    LET lines == split(result, LineFeed)
        headers == MapTrim(split(lines[1], Comma))
        cells(line) == [h \in Range(headers) |-> numberCell(rowOf(headers, line)[h])]
        items == [i \in 1..(Len(lines) - 1) |-> cells(lines[i + 1])]
    IN  [threw |-> FALSE, headers |-> headers,
         data |-> SelectSeq(items, NotBlank)]

parseSheetPivot(workbook) ==
    IF workbook.unreadable \/ workbook.sheet = <<>>
    THEN [threw |-> TRUE, headers |-> <<>>, data |-> <<>>]
    ELSE LET raw == workbook.sheet
             headers == MapTrim(raw[1])
             cell(row, h) ==
                 IF LastIndexOf(headers, h) <= Len(row)
                 THEN numberCell(row[LastIndexOf(headers, h)])
                 ELSE <<>>
             items == [i \in 1..(Len(raw) - 1) |->
                          [h \in Range(headers) |-> cell(raw[i + 1], h)]]
         IN  [threw |-> FALSE, headers |-> headers,
              data |-> SelectSeq(items, NotBlank)]

parseFile_Pivot(f) ==
    IF endsWith(f.name, dotCsv) THEN parseCsvPivot(f.content.text)
    ELSE parseSheetPivot(f.content)

----------------------------------------------------------------------------
(* Filter option discovery.                                                *)

\* the property order of the rows of a parse: Object.entries of an item
itemKeys(headers) == ObjectKeys(Dedupe(headers))

columnCells(rows, column) == [i \in DOMAIN rows |-> rows[i][column]]

\* getFilterOptions of the stacked-bar LikertChart: every column of the
\* rows, with its distinct non-empty values in the default sort order
getFilterOptions_Group(rows, keys) ==
    LET cols == IF rows = <<>> THEN <<>> ELSE keys
    IN  [i \in DOMAIN cols |->
            [column |-> cols[i],
             values |-> StableSort(Dedupe(SelectSeq(columnCells(rows, cols[i]),
                                                    Truthy)), StrLess)]]

\* getFilterOptions of the PivotChart: String(value), the empty one included
getFilterOptions_Pivot(rows, keys) ==
    LET cols == IF rows = <<>> THEN <<>> ELSE keys
    IN  [i \in DOMAIN cols |->
            [column |-> cols[i],
             values |-> StableSort(Dedupe(columnCells(rows, cols[i])),
                                   StrLess)]]

\* the [key, value] pairs that the loops of getFilterOptions visit, row by
\* row and, within a row, in property order
entriesOf(rows, keys) ==
    [n \in 1..(Len(rows) * Len(keys)) |->
        LET i == ((n - 1) \div Len(keys)) + 1
            k == keys[((n - 1) % Len(keys)) + 1]
        IN  [key |-> k, value |-> rows[i][k]]]

entryKey(e) == e.key

entryValue(e) == trim(e.value)

MapKey(entries) == [i \in DOMAIN entries |-> entryKey(entries[i])]

MapValue(entries) == [i \in DOMAIN entries |-> entryValue(entries[i])]

optionValuesUnsorted(entries, column) ==
    LET OfColumn(e) == e.key = column
    IN  Dedupe(MapValue(SelectSeq(entries, OfColumn)))

\* Array.from(values).sort() of the trimmed values added for a column
optionValues(entries, column) ==
    LET OfColumn(e) == e.key = column
    IN  StableSort(Dedupe(MapValue(SelectSeq(entries, OfColumn))), StrLess)

\* getFilterOptions of the comparator: the condition and response columns
\* are skipped, a value is added trimmed when it is not blank, and a column
\* is offered when it has more than one value
getFilterOptions_Compare(rows, keys, condCol, respCol) ==
    LET Added(e) == /\ e.key \notin {condCol, respCol}
                    /\ Truthy(e.value)
                    /\ trim(e.value) # <<>>
        added == SelectSeq(entriesOf(rows, keys), Added)
        columns == ObjectKeys(Dedupe(MapKey(added)))
        Offered(c) == Len(optionValues(added, c)) > 1
        offered == SelectSeq(columns, Offered)
    IN  [i \in DOMAIN offered |->
            [column |-> offered[i],
             values |-> optionValues(added, offered[i])]]

----------------------------------------------------------------------------
(* FileUpload: the upload of the survey CSV with its five fixed columns.   *)

\* const requiredHeaders = [...]
requiredHeaders ==
    << <<"i", "d">>,
       <<"s", "t", "r", "o", "n", "g", "l", "y", "D", "i", "s", "a", "g", "r", "e", "e">>,
       <<"d", "i", "s", "a", "g", "r", "e", "e">>,
       <<"a", "g", "r", "e", "e">>,
       <<"s", "t", "r", "o", "n", "g", "l", "y", "A", "g", "r", "e", "e">> >>

hasValidHeadersSome(headers) ==
    \E k \in DOMAIN requiredHeaders :
        toLowerCase(requiredHeaders[k])
            \in Range([i \in DOMAIN headers |-> toLowerCase(trim(headers[i]))])

\* requiredHeaders.every((header) =>
\*     headers.map((h) => h.trim().toLowerCase()).includes(header.toLowerCase()))
hasValidHeaders(headers) ==
    \A k \in DOMAIN requiredHeaders :
        toLowerCase(requiredHeaders[k])
            \in Range([i \in DOMAIN headers |-> toLowerCase(trim(headers[i]))])

NaN == [nan |-> TRUE, n |-> 0]

\* Number.parseFloat(values[index]); values[index] is undefined past the end
\* of the line and parseFloat(undefined) is NaN
floatAt(values, index) ==
    IF index <= Len(values) THEN parseFloat(values[index]) ELSE NaN

\* the record made of one line: the fields by position, whatever the headers
uploadItem(row) ==
    LET values == split(row, Comma)
    IN  [id |-> values[1],
         stronglyDisagree |-> floatAt(values, 2),
         disagree |-> floatAt(values, 3),
         agree |-> floatAt(values, 4),
         stronglyAgree |-> floatAt(values, 5)]

isNumbered(item) == ~item.stronglyDisagree.nan

\* rows.slice(1).map(...).filter((item) => !isNaN(item.stronglyDisagree))
uploadData(rows) ==
    SelectSeq([i \in 1..(Len(rows) - 1) |-> uploadItem(rows[i + 1])],
              isNumbered)

CsvOnlyMsg == "Please upload a CSV file"

ColumnsMsg ==
    "CSV must include columns: id, stronglyDisagree, disagree, agree, stronglyAgree"

UploadParseMsg == "Error parsing CSV file. Please check the format."

----------------------------------------------------------------------------
(* The inputs.  A row maps every header to a cell; a parsed row has at     *)
(* least one non-empty cell.  Cells read from a spreadsheet are not        *)
(* trimmed, so a cell may carry white space.                               *)

SeqsUpTo(S, n) == UNION {[1..k -> S] : k \in 0..n}

NoFilters == <<>>

\* every filter spec over the columns of `allowed`, each allow-list a subset
\* of the values given for its column; a column may be absent or present
\* with an empty allow-list
FilterSpecs(allowed) ==
    UNION {{f \in [D -> SUBSET UNION {allowed[c] : c \in D}] :
                \A c \in D : f[c] \subseteq allowed[c]}
           : D \in SUBSET DOMAIN allowed}

\* group aggregator: a condition column and one measure column; the
\* conditions are names, a list of names, or codes written in digits
GroupRows ==
    {item \in [cond : {<<>>, <<"A">>, <<"B">>, <<"A", ",", " ", "B">>,
                       <<" ", "A">>, <<"2">>, <<"1">>},
               val : {<<>>, <<"1">>, <<"x">>}] : HasValue(item)}

GroupFilters ==
    FilterSpecs([cond |-> {<<"A">>, <<" ", "A">>}, val |-> {<<"x">>}])

Letters == <<"A", "B", "C", "D", "E", "M">>

\* the i-th of the two-letter condition names
Token(i) == <<Letters[((i - 1) \div Len(Letters)) + 1],
              Letters[((i - 1) % Len(Letters)) + 1]>>

\* n rows with n distinct conditions, then the first row again
ManyGroups(n) ==
    [i \in 1..(n + 1) |->
        [cond |-> Token(IF i > n THEN 1 ELSE i),
         val |-> IF i % 2 = 1 THEN <<"1">> ELSE <<"x">>]]

\* rows whose measure column mixes numbers, words and empty cells
MixedRows ==
    [cond : {<<"A">>, <<"B">>, <<"A", ",", " ", "B">>},
     val : {<<>>, <<"2">>, <<"x">>}]

GroupData ==
    SeqsUpTo(GroupRows, MaxRows)
        \cup SeqsUpTo(MixedRows, MaxRows)
        \cup {ManyGroups(n) : n \in (TopN - GroupSlack)..(TopN + GroupSlack)}

\* comparator: a condition column, a response column and one more column
CompareRows ==
    {item \in [cond : {<<>>, <<"X">>, <<"Y">>},
               resp : {<<>>, <<"N", "o">>, <<"Y", "e", "s">>},
               grp : {<<"1">>, <<" ", "1">>}] : HasValue(item)}

CompareFilters ==
    FilterSpecs([grp |-> {<<"1">>}, resp |-> {<<"Y", "e", "s">>}])

\* comparator rows with three response values and a condition cell that
\* reads like a list
ThreeWayRows ==
    [cond : {<<"X">>, <<"Y">>, <<"X", ",", " ", "Y">>},
     resp : {<<>>, <<"M">>, <<"N", "o">>, <<"Y", "e", "s">>},
     grp : {<<"1">>}]

\* the rows of the end-to-end scenario
ScenarioRows ==
    << [cond |-> <<"X">>, resp |-> <<"Y", "e", "s">>],
       [cond |-> <<"X">>, resp |-> <<"N", "o">>],
       [cond |-> <<"Y">>, resp |-> <<"Y", "e", "s">>] >>

\* pivot: a row column, a column column and a value column
PivotRows ==
    {item \in [cond : {<<"X">>, <<"Y">>},
               resp : {<<"N", "o">>, <<"Y", "e", "s">>},
               val : {<<>>, <<"1">>, <<" ", "1">>, <<"x">>}] : HasValue(item)}

\* pivot rows whose cells hold the character that joins a composite key
BarRows ==
    [cond : {<<"X">>, <<"X", "|", "Y">>},
     resp : {<<"N", "o">>, <<"Y", "|", "N", "o">>},
     val : {<<"1">>}]

PivotFilters ==
    FilterSpecs([cond |-> {<<"X">>}, val |-> {<<"1">>}])

PivotConfigs ==
    {[rows |-> <<"cond">>, columns |-> <<"resp">>, values |-> v] :
        v \in {<<"val">>, <<"val", "cond">>}}

\* two row columns
TwoRowConfig ==
    [rows |-> <<"cond", "resp">>, columns |-> <<"val">>, values |-> <<"val">>]

NoPivotConfig == [rows |-> <<>>, columns |-> <<>>, values |-> <<>>]

NoPivotData == [rows |-> <<>>, columns |-> <<>>, values |-> <<>>]

\* the template the upload form offers for download
sampleHeader == join(requiredHeaders, Comma)

sampleRow1 ==
    <<"S", "T", "A", "Q", "0", "0", "1", ",", "4", "1", ",", "1", "5", ",",
      "3", "5", ",", "9">>

sampleRow2 ==
    <<"S", "T", "A", "Q", "0", "0", "2", ",", "4", "7", ",", "6", ",", "3",
      "8", ",", "9">>

sampleCsv == join(<<sampleHeader, sampleRow1, sampleRow2>>, LineFeed)

\* header lines for the upload form: the template's, one in another case
\* with white space and a carriage return, one without the last column, one
\* in another order, and one whose first name only contains "id"
shoutedHeader ==
    <<" ", "I", "D", " ", ",", "S", "T", "R", "O", "N", "G", "L", "Y", "D",
      "I", "S", "A", "G", "R", "E", "E", ",", "D", "i", "s", "a", "g", "r",
      "e", "e", ",", "a", "g", "r", "e", "e", ",", " ", "s", "t", "r", "o",
      "n", "g", "l", "y", "a", "g", "r", "e", "e", "\r">>

UploadHeaders ==
    { sampleHeader,
      shoutedHeader,
      join(SubSeq(requiredHeaders, 1, 4), Comma),
      join(<<requiredHeaders[2], requiredHeaders[1], requiredHeaders[3],
             requiredHeaders[4], requiredHeaders[5]>>, Comma),
      <<"x">> \o sampleHeader }

\* data lines: the template's two, one whose stronglyDisagree is no number,
\* a short one and an empty one
UploadLines ==
    { sampleRow1, sampleRow2,
      <<"S", ",", "x", ",", "1", ",", "2", ",", "3">>,
      <<"S", ",", "5">>,
      <<>> }

UploadTexts ==
    {join(<<h>> \o body, LineFeed) :
        h \in UploadHeaders, body \in SeqsUpTo(UploadLines, MaxRows)}

\* what the file input can hand over: the accept attribute is a hint only,
\* and file.text() rejects when the file can no longer be read
UploadFiles ==
    {[name |-> <<"a", ".", "c", "s", "v">>, type |-> t,
      content |-> [text |-> x, unreadable |-> u, sheet |-> <<>>]] :
        t \in {"text/csv", "application/vnd.ms-excel", ""},
        x \in UploadTexts, u \in BOOLEAN}

\* delimited text for the parser of the dashboards: a header line, then
\* lines that are full, short, long, blank or padded
ParserHeaders ==
    { <<"a", ",", "b">>, <<" ", "a", " ", ",", "b", "\r">>, <<"a">>,
      <<"a", ",", "a">> }

ParserLines ==
    { <<>>, <<"\r">>, <<",">>, <<"x", ",", "y">>, <<"x">>, <<",", "y", "\r">>,
      <<" ", "x", " ", ",">>, <<",", ",", "z">> }

ParserTexts ==
    {join(<<h>> \o body, LineFeed) :
        h \in ParserHeaders, body \in SeqsUpTo(ParserLines, MaxRows)}
        \cup {sampleCsv, <<>>}

ParserFiles ==
    {[name |-> <<"a", ".", "c", "s", "v">>, type |-> "text/csv",
      content |-> [text |-> x, unreadable |-> FALSE, sheet |-> <<>>]] :
        x \in ParserTexts}

\* rows for the comparator's option discovery: a condition column c, a
\* response column r and two more, g with blank, padded and repeated cells
OptionColumns == << <<"c">>, <<"r">>, <<"g">>, <<"h">> >>

OptionRows ==
    {[k \in Range(OptionColumns) |->
         CASE k = <<"c">> -> c [] k = <<"r">> -> <<"N">> [] k = <<"g">> -> g
           [] OTHER -> h] :
        c \in {<<"X">>, <<"Y">>},
        g \in {<<>>, <<" ">>, <<"b">>, <<"a">>, <<" ", "a">>, <<"B">>},
        h \in {<<"x">>, <<"y">>}}

----------------------------------------------------------------------------
(* The state machine: a component is handed its inputs, then the           *)
(* recomputation calls its processData and stores what it returns.         *)

Null == "null"

NoContent == [text |-> <<>>, unreadable |-> FALSE, sheet |-> <<>>]

\* a File: its name, its MIME type (file.type) and what reading it gives
NoFile == [name |-> <<>>, type |-> "", content |-> NoContent]

NoParse == [threw |-> FALSE, headers |-> <<>>, data |-> <<>>]

\* nothing scheduled, nothing being read, nothing shown
InitIdle ==
    /\ availableColumns = <<>>
    /\ filter = <<>>
    /\ error = Null
    /\ timers = {}
    /\ cleanup = 0
    /\ nextTimer = 1
    /\ reader = {}
    /\ event = [kind |-> "mount"]
    /\ delivered = <<>>
    /\ parsed = NoParse
    /\ filterOptions = <<>>

InitResults ==
    /\ pc = "ready"
    /\ filteredData = <<>>
    /\ conditionCounts = EmptyCounts
    /\ likertData = <<>>
    /\ stats = EmptyStats
    /\ compareData = NoComparison
    /\ pivotData = NoPivotData

InitGroup ==
    /\ file = NoFile
    /\ component = "group"
    /\ data \in GroupData
    /\ filters \in GroupFilters
    /\ conditionColumn = "cond"
    /\ selectedColumns = <<"val">>
    /\ responseColumn = ""
    /\ pivotConfig = NoPivotConfig

InitCompare ==
    /\ file = NoFile
    /\ component = "comparator"
    /\ \/ data \in SeqsUpTo(CompareRows, MaxRows) /\ filters \in CompareFilters
       \/ data \in SeqsUpTo(ThreeWayRows, MaxRows + 1) /\ filters = NoFilters
       \/ data = ScenarioRows /\ filters = NoFilters
    /\ conditionColumn = "cond"
    /\ selectedColumns = <<>>
    /\ responseColumn = "resp"
    /\ pivotConfig = NoPivotConfig

InitPivot ==
    /\ file = NoFile
    /\ component = "pivot"
    /\ \/ /\ data \in SeqsUpTo(PivotRows, MaxRows)
          /\ filters \in PivotFilters
          /\ pivotConfig \in PivotConfigs
       \/ /\ data \in SeqsUpTo(BarRows, MaxRows)
          /\ filters = NoFilters
          /\ pivotConfig = TwoRowConfig
    /\ conditionColumn = ""
    /\ selectedColumns = <<>>
    /\ responseColumn = ""

\* FileUpload with a file picked in its input
InitUpload ==
    /\ component = "FileUpload"
    /\ file \in UploadFiles
    /\ data = <<>>
    /\ filters = NoFilters
    /\ conditionColumn = ""
    /\ selectedColumns = <<>>
    /\ responseColumn = ""
    /\ pivotConfig = NoPivotConfig

\* parseFile handed a text file
InitParser ==
    /\ component = "parser"
    /\ file \in ParserFiles
    /\ data = <<>>
    /\ filters = NoFilters
    /\ conditionColumn = ""
    /\ selectedColumns = <<>>
    /\ responseColumn = ""
    /\ pivotConfig = NoPivotConfig

\* getFilterOptions handed rows and the two columns to leave out; the
\* response column may not be chosen yet
InitOptions ==
    /\ component = "options"
    /\ file = NoFile
    /\ data \in SeqsUpTo(OptionRows, MaxRows)
    /\ filters = NoFilters
    /\ conditionColumn \in {<<"c">>, <<"g">>}
    /\ selectedColumns = <<>>
    /\ responseColumn \in {<<"r">>, <<>>}
    /\ pivotConfig = NoPivotConfig

Init ==
    /\ InitResults
    /\ InitIdle
    /\ \/ InitGroup \/ InitCompare \/ InitPivot
       \/ InitUpload \/ InitParser \/ InitOptions

\* LikertChart (stacked bars): processData, then setData
RecomputeGroup ==
    /\ component = "group"
    /\ pc = "ready"
    /\ conditionColumn # "" /\ selectedColumns # <<>>
    /\ LET r == processData_Group(data, conditionColumn, selectedColumns,
                                  filters)
       IN  /\ filteredData' = r.filtered
           /\ conditionCounts' = r.counts
           /\ likertData' = r.out
    /\ pc' = "done"
    /\ UNCHANGED <<component, data, filters, conditionColumn, selectedColumns,
                   responseColumn, pivotConfig, stats, compareData, pivotData>>
    /\ UNCHANGED <<uiVars, ioVars>>

\* LikertChart (diverging bars): processData, then setProcessedData and
\* setCategories
RecomputeCompare ==
    /\ component = "comparator"
    /\ pc = "ready"
    /\ conditionColumn # "" /\ responseColumn # ""
    /\ LET r == processData_Compare(data, conditionColumn, responseColumn,
                                    filters)
       IN  /\ filteredData' = r.filtered
           /\ stats' = r.stats
           /\ compareData' = r.result
    /\ pc' = "done"
    /\ UNCHANGED <<component, data, filters, conditionColumn, selectedColumns,
                   responseColumn, pivotConfig, conditionCounts, likertData,
                   pivotData>>
    /\ UNCHANGED <<uiVars, ioVars>>

\* PivotChart: processData, then setProcessedData
RecomputePivot ==
    /\ component = "pivot"
    /\ pc = "ready"
    /\ pivotConfig.rows # <<>>
    /\ pivotConfig.columns # <<>>
    /\ pivotConfig.values # <<>>
    /\ LET r == processData_Pivot(data, pivotConfig, filters)
       IN  /\ filteredData' = r.filtered
           /\ pivotData' = r.result
    /\ pc' = "done"
    /\ UNCHANGED <<component, data, filters, conditionColumn, selectedColumns,
                   responseColumn, pivotConfig, conditionCounts, likertData,
                   stats, compareData>>
    /\ UNCHANGED <<uiVars, ioVars>>

\* FileUpload, handleFileUpload up to its await: the error is cleared, a
\* file of another MIME type is turned away, else the text is asked for
HandleFileUpload ==
    /\ component = "FileUpload"
    /\ pc = "ready"
    /\ IF file.type # "text/csv"
       THEN /\ error' = CsvOnlyMsg
            /\ reader' = reader
            /\ pc' = "done"
       ELSE /\ error' = Null
            /\ reader' = {file}
            /\ pc' = "reading"
    /\ event' = [kind |-> "upload", file |-> file]
    /\ UNCHANGED <<component, data, filters, conditionColumn, selectedColumns,
                   responseColumn, pivotConfig, filteredData, conditionCounts,
                   likertData, stats, compareData, pivotData>>
    /\ UNCHANGED <<availableColumns, filter, timers, cleanup, nextTimer, ioVars>>

\* FileUpload, handleFileUpload after its await: file.text() has settled
FileText ==
    /\ component = "FileUpload"
    /\ pc = "reading"
    /\ file \in reader
    /\ IF file.content.unreadable
       THEN /\ error' = UploadParseMsg
            /\ delivered' = delivered
       ELSE LET rows == split(file.content.text, LineFeed)
                headers == split(rows[1], Comma)
            IN  IF ~hasValidHeaders(headers)
                THEN /\ error' = ColumnsMsg
                     /\ delivered' = delivered
                ELSE /\ error' = error
                     /\ delivered' = Append(delivered, uploadData(rows))
    /\ reader' = {}
    /\ pc' = "done"
    /\ event' = [kind |-> "text", file |-> file]
    /\ UNCHANGED <<component, data, filters, conditionColumn, selectedColumns,
                   responseColumn, pivotConfig, filteredData, conditionCounts,
                   likertData, stats, compareData, pivotData>>
    /\ UNCHANGED <<availableColumns, filter, timers, cleanup, nextTimer, file,
                   parsed, filterOptions>>

\* parseFile(file, "csv")
ParseFile ==
    /\ component = "parser"
    /\ pc = "ready"
    /\ parsed' = parseFile(file)
    /\ pc' = "done"
    /\ UNCHANGED <<component, data, filters, conditionColumn, selectedColumns,
                   responseColumn, pivotConfig, filteredData, conditionCounts,
                   likertData, stats, compareData, pivotData>>
    /\ UNCHANGED <<uiVars, delivered, file, filterOptions>>

\* useMemo(() => getFilterOptions(data, conditionColumn, responseColumn))
DiscoverOptions ==
    /\ component = "options"
    /\ pc = "ready"
    /\ filterOptions' = getFilterOptions_Compare(data, itemKeys(OptionColumns),
                                                 conditionColumn,
                                                 responseColumn)
    /\ pc' = "done"
    /\ UNCHANGED <<component, data, filters, conditionColumn, selectedColumns,
                   responseColumn, pivotConfig, filteredData, conditionCounts,
                   likertData, stats, compareData, pivotData>>
    /\ UNCHANGED <<uiVars, delivered, file, parsed>>

Next ==
    \/ RecomputeGroup
    \/ RecomputeCompare
    \/ RecomputePivot
    \/ HandleFileUpload
    \/ FileText
    \/ ParseFile
    \/ DiscoverOptions

Spec == Init /\ [][Next]_vars

----------------------------------------------------------------------------
(* The components: upload, selection, filter toggles and the debounced     *)
(* recomputation.  A handler and the effect pass of the render it causes   *)
(* are one step; a timer callback and a FileReader callback are steps of   *)
(* their own.                                                              *)

\* the ids setTimeout hands out stay in 1..MaxTimers
MaxTimers == 2

\* at most MaxReads files are being read at a time
MaxReads == 1

UnsupportedMsg == "Unsupported file type. Please upload a CSV or Excel file."

ParseMsg == "Error parsing file. Please check the format and try again."

ProcessMsg == "Error processing data. Please check the console for details."

UpdateMsg ==
    "An error occurred while updating the chart. Please check the console for more details."

\* the files the user can pick: a text file, two workbooks (one of them
\* unreadable) and a file of another kind, all with the headers c, r, v
csvFile ==
    [name |-> <<"a", ".", "c", "s", "v">>, type |-> "text/csv",
     content |-> [text |-> <<"c", ",", "r", ",", "v", "\n",
                             "X", ",", "Y", "e", "s", ",", "1", "\n",
                             "Y", ",", "N", "o", ",", "1">>,
                  unreadable |-> FALSE, sheet |-> <<>>]]

xlsxFile ==
    [name |-> <<"b", ".", "x", "l", "s", "x">>,
     type |-> "application/vnd.openxmlformats-officedocument.spreadsheetml.sheet",
     content |-> [text |-> <<>>, unreadable |-> FALSE,
                  sheet |-> << << <<"c">>, <<"r">>, <<"v">> >>,
                               << <<"X">>, <<"N", "o">>, <<"2">> >> >>]]

xlsFile ==
    [name |-> <<"c", ".", "x", "l", "s">>,
     type |-> "application/vnd.ms-excel",
     content |-> [text |-> <<>>, unreadable |-> TRUE, sheet |-> <<>>]]

txtFile ==
    [name |-> <<"d", ".", "t", "x", "t">>, type |-> "text/plain",
     content |-> [text |-> <<>>, unreadable |-> TRUE, sheet |-> <<>>]]

Files == {csvFile, xlsxFile, xlsFile, txtFile}

Uploaders ==
    {"LikertChart", "LikertChartText", "PivotChart", "Dashboard",
     "DashboardPivot"}

\* the values a timer callback reads: the state of the render that ran the
\* effect
Closure(d, cond, sel, resp, cfg, f, text) ==
    [data |-> d, conditionColumn |-> cond, selectedColumns |-> sel,
     responseColumn |-> resp, pivotConfig |-> cfg, filters |-> f,
     filter |-> text]

\* the condition under which the effect sets a timer
EffectGuard(cond, sel, resp, cfg) ==
    CASE component \in {"LikertChart", "LikertChartText"} ->
            Truthy(cond) /\ Len(sel) > 0
      [] component = "Dashboard" -> Truthy(cond) /\ Truthy(resp)
      [] OTHER -> Len(cfg.rows) > 0 /\ Len(cfg.columns) > 0
                    /\ Len(cfg.values) > 0

RunEffectNoCleanup(guard, closure) ==
    /\ guard => nextTimer <= MaxTimers
    /\ timers' = timers \cup (IF guard
                              THEN {[id |-> nextTimer, closure |-> closure]}
                              ELSE {})
    /\ cleanup' = IF guard THEN nextTimer ELSE 0
    /\ nextTimer' = IF guard THEN nextTimer + 1 ELSE nextTimer

\* a dependency of the effect has changed: the cleanup of the previous pass
\* clears its timer, then the effect runs again
RunEffect(guard, closure) ==
    /\ guard => nextTimer <= MaxTimers
    /\ timers' = {t \in timers : t.id # cleanup}
                    \cup (IF guard
                          THEN {[id |-> nextTimer, closure |-> closure]}
                          ELSE {})
    /\ cleanup' = IF guard THEN nextTimer ELSE 0
    /\ nextTimer' = IF guard THEN nextTimer + 1 ELSE nextTimer

\* the state setters of one handler, then the effect pass
Commit(d, cond, sel, resp, cfg, f) ==
    /\ data' = d
    /\ conditionColumn' = cond
    /\ selectedColumns' = sel
    /\ responseColumn' = resp
    /\ pivotConfig' = cfg
    /\ filters' = f
    /\ RunEffect(EffectGuard(cond, sel, resp, cfg),
                 Closure(d, cond, sel, resp, cfg, f, filter))

Supported(name) ==
    endsWith(name, dotCsv) \/ endsWith(name, dotXlsx) \/ endsWith(name, dotXls)

UploadFileAnyName(f) ==
    /\ component \in Uploaders
    /\ f \notin reader
    /\ Supported(f.name) => Cardinality(reader) < MaxReads
    /\ error' = Null
    /\ reader' = reader \cup {f}
    /\ event' = [kind |-> "upload", file |-> f]
    /\ UNCHANGED <<engineVars, availableColumns, filter, timers, cleanup,
                   nextTimer, ioVars>>

\* handleFileUpload: setError(null), then the read is started or the file
\* is refused
UploadFile(f) ==
    /\ component \in Uploaders
    /\ f \notin reader
    /\ Supported(f.name) => Cardinality(reader) < MaxReads
    /\ error' = IF Supported(f.name) THEN Null ELSE UnsupportedMsg
    /\ reader' = IF Supported(f.name) THEN reader \cup {f} ELSE reader
    /\ event' = [kind |-> "upload", file |-> f]
    /\ UNCHANGED <<engineVars, availableColumns, filter, timers, cleanup,
                   nextTimer, ioVars>>

\* headers.slice(1, 4)
firstMeasures(headers) ==
    SubSeq(headers, 2, IF Len(headers) < 4 THEN Len(headers) ELSE 4)

configOf(headers) ==
    [rows |-> <<headers[1]>>, columns |-> <<headers[2]>>,
     values |-> <<headers[3]>>]

\* the setters of reader.onload after a successful parse
Loaded(r) ==
    LET first == availableColumns = <<>>
    IN  CASE component \in {"LikertChart", "LikertChartText"} ->
                Commit(r.data, r.headers[1], firstMeasures(r.headers),
                       responseColumn, pivotConfig,
                       IF component = "LikertChart" THEN NoFilters
                       ELSE filters)
          [] component = "PivotChart" ->
                Commit(r.data, conditionColumn, selectedColumns,
                       responseColumn, configOf(r.headers), NoFilters)
          [] component = "Dashboard" ->
                Commit(r.data,
                       IF first THEN r.headers[1] ELSE conditionColumn,
                       selectedColumns,
                       IF first THEN <<>> ELSE responseColumn,
                       pivotConfig,
                       IF first THEN NoFilters ELSE filters)
          [] OTHER ->
                Commit(r.data, conditionColumn, selectedColumns,
                       responseColumn,
                       IF first THEN configOf(r.headers) ELSE pivotConfig,
                       IF first THEN NoFilters ELSE filters)

\* the parseFile of the component's own file
parseOf(f) ==
    IF component = "PivotChart" THEN parseFile_Pivot(f) ELSE parseFile(f)

ReadDoneCleared(f) ==
    /\ f \in reader
    /\ reader' = reader \ {f}
    /\ event' = [kind |-> "onload", file |-> f]
    /\ LET r == parseOf(f)
       IN  IF r.threw
           THEN /\ error' = ParseMsg
                /\ data' = <<>>
                /\ UNCHANGED <<conditionColumn, selectedColumns,
                               responseColumn, pivotConfig, filters,
                               availableColumns, timers, cleanup, nextTimer>>
           ELSE /\ availableColumns' = r.headers
                /\ error' = error
                /\ Loaded(r)
    /\ UNCHANGED <<component, pc, filteredData, conditionCounts, likertData,
                   stats, compareData, pivotData, filter, ioVars>>

\* reader.onload: parseFile, then the setters; a parse that throws sets the
\* error alone
ReadDone(f) ==
    /\ f \in reader
    /\ reader' = reader \ {f}
    /\ event' = [kind |-> "onload", file |-> f]
    /\ LET r == parseOf(f)
       IN  IF r.threw
           THEN /\ error' = ParseMsg
                /\ UNCHANGED <<data, conditionColumn, selectedColumns,
                               responseColumn, pivotConfig, filters,
                               availableColumns, timers, cleanup, nextTimer>>
           ELSE /\ availableColumns' = r.headers
                /\ error' = error
                /\ Loaded(r)
    /\ UNCHANGED <<component, pc, filteredData, conditionCounts, likertData,
                   stats, compareData, pivotData, filter, ioVars>>

\* the check boxes drawn from a list of options
Checkboxes(options) ==
    UNION {{<<options[i].column, options[i].values[j]>> :
               j \in DOMAIN options[i].values} : i \in DOMAIN options}

currentOptions ==
    CASE component = "LikertChart" ->
            getFilterOptions_Group(data, itemKeys(availableColumns))
      [] component = "Dashboard" ->
            getFilterOptions_Compare(data, itemKeys(availableColumns),
                                     conditionColumn, responseColumn)
      [] component \in {"PivotChart", "DashboardPivot"} ->
            getFilterOptions_Pivot(data, itemKeys(availableColumns))
      [] OTHER -> <<>>

\* onValueChange of the condition select
SelectCondition(c) ==
    /\ component \in {"LikertChart", "LikertChartText", "Dashboard"}
    /\ c \in Range(availableColumns)
    /\ c # conditionColumn
    /\ Commit(data, c, selectedColumns, responseColumn, pivotConfig, filters)
    /\ event' = [kind |-> "select"]
    /\ UNCHANGED <<component, pc, filteredData, conditionCounts, likertData,
                   stats, compareData, pivotData, availableColumns, filter,
                   error, reader, ioVars>>

\* onValueChange of the i-th measure select: a new array every time
SelectColumn(i, c) ==
    /\ component = "LikertChartText"
    /\ i \in 1..3 /\ i <= Len(selectedColumns) + 1
    /\ c \in Range(availableColumns) \ {conditionColumn}
    /\ LET n == IF i > Len(selectedColumns) THEN i ELSE Len(selectedColumns)
           newColumns == [j \in 1..n |-> IF j = i THEN c
                                         ELSE selectedColumns[j]]
       IN  Commit(data, conditionColumn, newColumns, responseColumn,
                  pivotConfig, filters)
    /\ event' = [kind |-> "select"]
    /\ UNCHANGED <<component, pc, filteredData, conditionCounts, likertData,
                   stats, compareData, pivotData, availableColumns, filter,
                   error, reader, ioVars>>

\* onValueChange of the response select
SelectResponse(c) ==
    /\ component = "Dashboard"
    /\ c \in Range(availableColumns) \ {conditionColumn}
    /\ c # responseColumn
    /\ Commit(data, conditionColumn, selectedColumns, c, pivotConfig, filters)
    /\ event' = [kind |-> "select"]
    /\ UNCHANGED <<component, pc, filteredData, conditionCounts, likertData,
                   stats, compareData, pivotData, availableColumns, filter,
                   error, reader, ioVars>>

\* onValueChange of the rows, columns or values select
SelectPivot(field, c) ==
    /\ component \in {"PivotChart", "DashboardPivot"}
    /\ field \in {"rows", "columns", "values"}
    /\ c \in Range(availableColumns)
    /\ pivotConfig[field] # <<c>>
    /\ Commit(data, conditionColumn, selectedColumns, responseColumn,
              [pivotConfig EXCEPT ![field] = <<c>>], filters)
    /\ event' = [kind |-> "select"]
    /\ UNCHANGED <<component, pc, filteredData, conditionCounts, likertData,
                   stats, compareData, pivotData, availableColumns, filter,
                   error, reader, ioVars>>

\* onCheckedChange of a filter check box: the value is added to the
\* allow-list of its column or taken out of it
ToggleFilter(column, value) ==
    /\ <<column, value>> \in Checkboxes(currentOptions)
    /\ LET cur == IF column \in DOMAIN filters THEN filters[column] ELSE {}
           new == IF value \in cur THEN cur \ {value} ELSE cur \cup {value}
           newFilters == [c \in DOMAIN filters \cup {column} |->
                             IF c = column THEN new ELSE filters[c]]
       IN  Commit(data, conditionColumn, selectedColumns, responseColumn,
                  pivotConfig, newFilters)
    /\ event' = [kind |-> "toggle"]
    /\ UNCHANGED <<component, pc, filteredData, conditionCounts, likertData,
                   stats, compareData, pivotData, availableColumns, filter,
                   error, reader, ioVars>>

FilterTexts == {<<>>, <<"x">>}

\* onChange of the free-text filter: setFilter, which is no dependency of
\* the effect
TypeFilterScheduling(text) ==
    /\ component = "LikertChartText"
    /\ availableColumns # <<>>
    /\ text \in FilterTexts \ {filter}
    /\ filter' = text
    /\ RunEffect(EffectGuard(conditionColumn, selectedColumns,
                             responseColumn, pivotConfig),
                 Closure(data, conditionColumn, selectedColumns,
                         responseColumn, pivotConfig, filters, text))
    /\ event' = [kind |-> "filter"]
    /\ UNCHANGED <<engineVars, availableColumns, error, reader, ioVars>>

TypeFilter(text) ==
    /\ component = "LikertChartText"
    /\ availableColumns # <<>>
    /\ text \in FilterTexts \ {filter}
    /\ filter' = text
    /\ event' = [kind |-> "filter"]
    /\ UNCHANGED <<engineVars, availableColumns, error, timers, cleanup,
                   nextTimer, reader, ioVars>>

\* rawData.filter(...) of updateChartData
textFiltered(rows, condCol, text) ==
    LET Kept(item) == /\ Truthy(item[condCol])
                      /\ includes(toLowerCase(item[condCol]),
                                  toLowerCase(text))
    IN  SelectSeq(rows, Kept)

\* what the catch block of the timer callback does
caught ==
    CASE component \in {"LikertChart", "PivotChart"} -> ProcessMsg
      [] component = "LikertChartText" -> UpdateMsg
      [] OTHER -> error

TimeoutRetained(t) ==
    /\ t \in timers
    /\ \E threw \in BOOLEAN :
        /\ event' = [kind |-> "timeout", id |-> t.id, threw |-> threw]
        /\ error' = IF threw THEN caught ELSE error
        /\ UNCHANGED <<likertData, compareData, pivotData>>
    /\ timers' = timers \ {t}
    /\ UNCHANGED <<component, data, filters, conditionColumn, selectedColumns,
                   responseColumn, pivotConfig, pc, filteredData,
                   conditionCounts, stats, availableColumns, filter, cleanup,
                   nextTimer, reader, ioVars>>

\* the timer callback: processData on the values of its closure, then the
\* setter of the result, or the catch block
Timeout(t) ==
    /\ t \in timers
    /\ \E threw \in BOOLEAN :
        /\ event' = [kind |-> "timeout", id |-> t.id, threw |-> threw]
        /\ error' = IF threw THEN caught ELSE error
        /\ LET c == t.closure
           IN  IF threw
               THEN UNCHANGED <<likertData, compareData, pivotData>>
               ELSE
               /\ likertData' =
                    CASE component = "LikertChart" ->
                            processData_Group(c.data, c.conditionColumn,
                                c.selectedColumns, c.filters).out
                      [] component = "LikertChartText" ->
                            processData_Group(
                                textFiltered(c.data, c.conditionColumn,
                                             c.filter),
                                c.conditionColumn, c.selectedColumns,
                                NoFilters).out
                      [] OTHER -> likertData
               /\ compareData' =
                    IF component = "Dashboard"
                    THEN processData_Compare(c.data, c.conditionColumn,
                            c.responseColumn, c.filters).result
                    ELSE compareData
               /\ pivotData' =
                    IF component \in {"PivotChart", "DashboardPivot"}
                    THEN processData_Pivot(c.data, c.pivotConfig,
                                           c.filters).result
                    ELSE pivotData
    /\ timers' = timers \ {t}
    /\ UNCHANGED <<component, data, filters, conditionColumn, selectedColumns,
                   responseColumn, pivotConfig, pc, filteredData,
                   conditionCounts, stats, availableColumns, filter, cleanup,
                   nextTimer, reader, ioVars>>

InitUI ==
    /\ component \in Uploaders
    /\ data = <<>>
    /\ filters = NoFilters
    /\ conditionColumn = <<>>
    /\ selectedColumns = <<>>
    /\ responseColumn = <<>>
    /\ pivotConfig = NoPivotConfig
    /\ pc = "mounted"
    /\ filteredData = <<>>
    /\ conditionCounts = EmptyCounts
    /\ likertData = <<>>
    /\ stats = EmptyStats
    /\ compareData = NoComparison
    /\ pivotData = NoPivotData
    /\ file = NoFile
    /\ InitIdle

NextUI ==
    \/ \E f \in Files : UploadFile(f)
    \/ \E f \in Files : ReadDone(f)
    \/ \E c \in Range(availableColumns) : SelectCondition(c)
    \/ \E i \in 1..3, c \in Range(availableColumns) : SelectColumn(i, c)
    \/ \E c \in Range(availableColumns) : SelectResponse(c)
    \/ \E field \in {"rows", "columns", "values"},
          c \in Range(availableColumns) : SelectPivot(field, c)
    \/ \E box \in Checkboxes(currentOptions) : ToggleFilter(box[1], box[2])
    \/ \E text \in FilterTexts : TypeFilter(text)
    \/ \E t \in timers : Timeout(t)

SpecUI == InitUI /\ [][NextUI]_vars

----------------------------------------------------------------------------
(* The filter step: C1, C2, C3.                                            *)

Done(c) == component = c /\ pc = "done"

\* one of the three aggregators has run
Aggregated == Done("group") \/ Done("comparator") \/ Done("pivot")

\* the filter step of the component that ran
filterStep(rows, f) ==
    IF component = "group" THEN filteredData_Group(rows, f)
    ELSE IF component = "comparator" THEN filteredData_Compare(rows, f)
    ELSE filteredData_Pivot(rows, f)

\* the rule of the specification: for every column with a non-empty
\* allow-set the trimmed cell is in the allow-set
TrimmedMember(item) ==
    \A column \in DOMAIN filters :
        filters[column] # {} => trim(item[column]) \in filters[column]

\* the same rule on the cell as it stands
RawMember(item) ==
    \A column \in DOMAIN filters :
        filters[column] # {} => item[column] \in filters[column]

\* C1: in every aggregator a row is kept by the filter step iff, for every
\* column whose allow-set is not empty, its trimmed cell is in the
\* allow-set; absent columns and empty allow-sets do not constrain.
\* The group aggregator and the pivot aggregator compare the cell untrimmed.
C1_TrimmedMembership ==
    Aggregated => filteredData = SelectSeq(data, TrimmedMember)

\* C1 as amended: the comparator keeps a row iff its trimmed cell is in every
\* non-empty allow-set; the group and pivot aggregators keep it iff the cell
\* as it stands is.
C1_AsCoded ==
    /\ Done("comparator") => filteredData = SelectSeq(data, TrimmedMember)
    /\ Done("group") \/ Done("pivot") =>
            filteredData = SelectSeq(data, RawMember)

\* the group aggregator drops a row whose trimmed cell is in the allow-set
\* and whose raw cell is not
C1_Witness ==
    /\ Done("group")
    /\ "cond" \in DOMAIN filters
    /\ filters["cond"] = {<<"A">>}
    /\ \E i \in DOMAIN data : data[i].cond = <<" ", "A">>
    /\ \A i \in DOMAIN filteredData : filteredData[i].cond = <<"A">>
    /\ filteredData # <<>>

\* C2: filtering is idempotent: filtering the kept rows again with the same
\* filter spec returns exactly the kept rows.
C2_FilterIdempotent ==
    Aggregated => filterStep(filteredData, filters) = filteredData

C2_Witness ==
    /\ Aggregated
    /\ filteredData # <<>>
    /\ Len(filteredData) < Len(data)

\* sub is a subsequence of full: its rows occur in full in the same order
RECURSIVE IsSubsequence(_, _)
IsSubsequence(sub, full) ==
    IF sub = <<>> THEN TRUE
    ELSE IF full = <<>> THEN FALSE
    ELSE IF Head(sub) = Head(full) THEN IsSubsequence(Tail(sub), Tail(full))
    ELSE IsSubsequence(sub, Tail(full))

\* C3: the filter step returns a subsequence of its input in the original
\* order, and with the empty filter spec it returns every row unchanged.
C3_FilterSubsequence ==
    Aggregated =>
        /\ IsSubsequence(filteredData, data)
        /\ DOMAIN filters = {} => filteredData = data

C3_Witness ==
    /\ Aggregated
    /\ DOMAIN filters = {}
    /\ Len(data) >= 2
    /\ filteredData = data

----------------------------------------------------------------------------
(* The group aggregator: C4, C5, C6.                                       *)

Min(a, b) == IF a < b THEN a ELSE b

sA == <<"A">>

sB == <<"B">>

sAB == <<"A", ",", " ", "B">>

\* the number of kept rows whose condition cell is v
CondCount(v) ==
    Cardinality({i \in DOMAIN filteredData : filteredData[i].cond = v})

\* the total a condition name is owed: one for every kept row with that very
\* condition cell, and for A and for B one more for every kept row "A, B"
OwedTotal(k) ==
    CondCount(k) + (IF k \in {sA, sB} THEN CondCount(sAB) ELSE 0)

\* the condition cells of the kept rows
CondCells == {filteredData[i].cond : i \in DOMAIN filteredData}

\* C4: a kept row with condition "A, B" counts exactly once for group A and
\* exactly once for group B (and for no group "A, B"), and a kept row with
\* an empty condition counts for no group.
C4_MultiMembership ==
    Done("group") =>
        /\ Range(conditionCounts.keys) =
              (CondCells \ {<<>>, sAB})
                  \cup (IF sAB \in CondCells THEN {sA, sB} ELSE {})
        /\ \A k \in Range(conditionCounts.keys) :
              conditionCounts.total[k] = OwedTotal(k)

C4_Witness ==
    /\ Done("group")
    /\ CondCount(sAB) = 1
    /\ CondCount(sA) = 1
    /\ conditionCounts.total[sA] = 2
    /\ conditionCounts.total[sB] = 1

\* the distinct pieces of the non-empty condition cells of the kept rows
DistinctTokens ==
    UNION {Range(split(cell, CommaSpace)) : cell \in CondCells \ {<<>>}}

C6_NoZeroTotal ==
    Done("group") =>
        /\ \A i \in DOMAIN likertData :
              /\ conditionCounts.total[likertData[i].condition] >= 1
              /\ \A col \in DOMAIN likertData[i].value :
                    likertData[i].value[col].den =
                        conditionCounts.total[likertData[i].condition]
        /\ \A k \in Range(conditionCounts.keys) : conditionCounts.total[k] >= 1
        /\ data = <<>> => likertData = <<>>

C6_Witness ==
    /\ Done("group")
    /\ Len(likertData) = 2
    /\ \E i \in DOMAIN data : data[i].cond = <<>>

----------------------------------------------------------------------------
(* The two-category comparator: C7, C8, C9.                                *)

sNo == <<"N", "o">>

sYes == <<"Y", "e", "s">>

sX == <<"X">>

sY == <<"Y">>

\* the distinct non-empty response cells of the kept rows
DistinctResponses ==
    {filteredData[i][responseColumn] : i \in DOMAIN filteredData} \ {<<>>}

\* C7: with fewer than two distinct non-empty response values in the kept
\* rows the comparator returns no record and the categories "" and "".
C7_MinimumCategories ==
    Done("comparator") /\ Cardinality(DistinctResponses) < 2 =>
        /\ compareData.data = <<>>
        /\ compareData.categories = [left |-> <<>>, right |-> <<>>]

C7_Witness ==
    /\ Done("comparator")
    /\ Cardinality(DistinctResponses) = 1
    /\ \E i \in DOMAIN filteredData :
          /\ filteredData[i].resp = <<>>
          /\ Truthy(filteredData[i].cond)
    /\ compareData = NoComparison

\* C8: every record of the comparator has leftValue <= 0 and
\* rightValue >= 0.
C8_SignInvariant ==
    Done("comparator") =>
        \A i \in DOMAIN compareData.data :
            /\ compareData.data[i].leftValue <= 0
            /\ compareData.data[i].rightValue >= 0

C8_Witness ==
    /\ Done("comparator")
    /\ \E i \in DOMAIN compareData.data :
          /\ compareData.data[i].leftValue < 0
          /\ compareData.data[i].rightValue > 0

\* the fields of a comparator record that the scenario names
Shown(rec) ==
    [condition |-> rec.condition, leftValue |-> rec.leftValue,
     rightValue |-> rec.rightValue, total |-> rec.total]

\* C9: the rows (X, Yes), (X, No), (Y, Yes) without filters give the
\* categories left = No, right = Yes and the records X: -1, 1, total 2 and
\* Y: 0, 1, total 1, in that order.
C9_Scenario ==
    Done("comparator") /\ data = ScenarioRows /\ DOMAIN filters = {} =>
        /\ compareData.categories = [left |-> sNo, right |-> sYes]
        /\ [i \in DOMAIN compareData.data |-> Shown(compareData.data[i])] =
              << [condition |-> sX, leftValue |-> 0 - 1, rightValue |-> 1,
                  total |-> 2],
                 [condition |-> sY, leftValue |-> 0, rightValue |-> 1,
                  total |-> 1] >>

C9_Witness ==
    /\ Done("comparator")
    /\ data = ScenarioRows
    /\ DOMAIN filters = {}
    /\ Len(compareData.data) = 2

----------------------------------------------------------------------------
(* The pivot aggregator: C10.                                              *)

\* some kept row has the row key r and the column key c
Matched(r, c) ==
    \E i \in DOMAIN filteredData :
        /\ compositeKey(filteredData[i], pivotConfig.rows) = r
        /\ compositeKey(filteredData[i], pivotConfig.columns) = c

----------------------------------------------------------------------------
(* The debounced recomputation and the upload.                             *)

\* the values the effects depend on
dependencies ==
    <<data, conditionColumn, selectedColumns, responseColumn, pivotConfig,
      filters>>

\* the step is the run of a timer callback
TimerRuns == event'.kind = "timeout" /\ timers' # timers

C12_EveryChangeSchedules ==
    [][(/\ <<conditionColumn, selectedColumns, responseColumn, pivotConfig,
             filters, filter>>' #
           <<conditionColumn, selectedColumns, responseColumn, pivotConfig,
             filters, filter>>
        /\ EffectGuard(conditionColumn', selectedColumns', responseColumn',
                       pivotConfig'))
       => nextTimer' = nextTimer + 1]_vars

\* C13: no recomputation runs while a file is being read.
C13_NoRunWhileReading == [][TimerRuns => reader = {}]_vars

\* the values an upload may replace
uploaded ==
    <<availableColumns, data, conditionColumn, selectedColumns,
      responseColumn, pivotConfig, filters>>

\* C14: an upload of a file whose name ends with none of .csv, .xlsx, .xls
\* starts no read, sets the error message and leaves the headers, the rows,
\* the selection and the filters as they were.
C14_UnsupportedRejected ==
    [][(event'.kind = "upload" /\ ~Supported(event'.file.name))
       => /\ reader' = reader
          /\ error' = UnsupportedMsg
          /\ uploaded' = uploaded]_vars

\* a file of another kind was refused while rows were loaded
C14_Witness ==
    /\ event.kind = "upload"
    /\ ~Supported(event.file.name)
    /\ error = UnsupportedMsg
    /\ data # <<>>

\* C15: when the parse of an uploaded file throws, the error message is set
\* and the headers, the rows, the selection and the filters are those from
\* before the upload.
C15_FailedParseKeepsState ==
    [][(event'.kind = "onload" /\ parseOf(event'.file).threw)
       => /\ error' = ParseMsg
          /\ uploaded' = uploaded]_vars

\* an unreadable workbook was refused while rows were loaded
C15_Witness ==
    /\ event.kind = "onload"
    /\ parseOf(event.file).threw
    /\ error = ParseMsg
    /\ data # <<>>

----------------------------------------------------------------------------
(* FileUpload and the parser.                                              *)

\* the trimmed fields of the k-th line of the picked file's text
lineFields(k) ==
    MapTrim(split(split(file.content.text, LineFeed)[k], Comma))

\* the header line names every required column, compared without regard to
\* case or surrounding white space
headerContainsAll ==
    \A k \in DOMAIN requiredHeaders :
        \E i \in DOMAIN lineFields(1) :
            toLowerCase(lineFields(1)[i]) = toLowerCase(requiredHeaders[k])

fieldAt(k, i) ==
    IF i <= Len(lineFields(k)) THEN lineFields(k)[i] ELSE <<>>

\* the lines after the first that have a non-empty field under some header,
\* in source order
RECURSIVE keptLines(_)
keptLines(k) ==
    IF k > Len(split(file.content.text, LineFeed)) THEN <<>>
    ELSE IF \E i \in DOMAIN lineFields(1) : fieldAt(k, i) # <<>>
         THEN <<k>> \o keptLines(k + 1)
         ELSE keptLines(k + 1)

uniqueHeaders ==
    \A i, j \in DOMAIN lineFields(1) :
        lineFields(1)[i] = lineFields(1)[j] => i = j

sampleParsed(items) ==
    /\ Len(items) = 2
    /\ items[1] = 41
    /\ items[2] = 47

----------------------------------------------------------------------------
(* The order of the group aggregator's records.                            *)

\* the condition tokens of the rows, in the order the rows name them
RECURSIVE tokensOf(_)
tokensOf(rows) ==
    IF rows = <<>> THEN <<>>
    ELSE (IF Truthy(Head(rows)[conditionColumn])
          THEN split(Head(rows)[conditionColumn], <<",", " ">>)
          ELSE <<>>) \o tokensOf(Tail(rows))

firstAppearance(token) ==
    CHOOSE i \in DOMAIN tokensOf(filteredData) :
        /\ tokensOf(filteredData)[i] = token
        /\ \A j \in 1..(i - 1) : tokensOf(filteredData)[j] # token

firstMeasure(record) == record.value[selectedColumns[1]]

\* C20: the group aggregator returns its records in descending order of the
\* first measure column's value, and records of equal value stand in the
\* order in which their condition tokens first appear in the filtered rows.
C20_DescendingTiesByAppearance ==
    (component = "group" /\ pc = "done") =>
        \A i, j \in DOMAIN likertData :
            i < j =>
                /\ ~RatioLess(firstMeasure(likertData[i]),
                              firstMeasure(likertData[j]))
                /\ ~RatioLess(firstMeasure(likertData[j]),
                              firstMeasure(likertData[i]))
                       => firstAppearance(likertData[i].condition)
                              < firstAppearance(likertData[j].condition)

----------------------------------------------------------------------------
(* Filter option discovery of the comparator.                              *)

\* the distinct trimmed cells of a column that are not empty
distinctValues(column) ==
    {trim(data[i][column]) : i \in DOMAIN data} \ {<<>>}

\* C19: every option the comparator's getFilterOptions returns is for a
\* column other than the condition and response columns, lists exactly the
\* distinct non-empty trimmed values of that column in the rows, in strictly
\* ascending order (so without duplicates), and has at least two values.
C19_FilterOptionsDiscovered ==
    (component = "options" /\ pc = "done") =>
        \A n \in DOMAIN filterOptions :
            LET column == filterOptions[n].column
                values == filterOptions[n].values
            IN  /\ column \notin {conditionColumn, responseColumn}
                /\ Range(values) = distinctValues(column)
                /\ \A i, j \in DOMAIN values :
                       i < j => StrLess(values[i], values[j])
                /\ Cardinality(distinctValues(column)) >= 2

C19_Witness ==
    /\ component = "options"
    /\ pc = "done"
    /\ Len(data) = 2
    /\ data[1][<<"g">>] = <<"b">>
    /\ data[2][<<"g">>] = <<" ", "a">>
    /\ conditionColumn = <<"c">>
    /\ responseColumn = <<"r">>
    /\ \E n \in DOMAIN filterOptions :
           /\ filterOptions[n].column = <<"g">>
           /\ filterOptions[n].values = << <<"a">>, <<"b">> >>

----------------------------------------------------------------------------
(* The values the group aggregator reports: C21, C28.                      *)

\* how often the kept row i contributes to the group `token`
contributes(i, token) ==
    IF Truthy(filteredData[i][conditionColumn])
    THEN Cardinality({p \in DOMAIN split(filteredData[i][conditionColumn],
                                         CommaSpace) :
                         split(filteredData[i][conditionColumn],
                               CommaSpace)[p] = token})
    ELSE 0

\* the number a cell stands for, none being 0
cellNumber(cell) == IF parseFloat(cell).nan THEN 0 ELSE parseFloat(cell).n

\* the sum over the first n kept rows of what they contribute to `token`:
\* their number in col, or one for a non-empty cell in col
RECURSIVE sumOver(_, _, _, _)
sumOver(n, token, col, counting) ==
    IF n = 0 THEN 0
    ELSE sumOver(n - 1, token, col, counting)
            + contributes(n, token)
                * (IF counting
                   THEN (IF Truthy(filteredData[n][col]) THEN 1 ELSE 0)
                   ELSE cellNumber(filteredData[n][col]))

groupTotal(token) == sumOver(Len(filteredData), token, conditionColumn, TRUE)

firstRowNumeric(col) == ~parseFloat(data[1][col]).nan

\* every cell of col in the rows contributing to `token` is a number or empty
allNumbers(token, col) ==
    \A i \in DOMAIN filteredData :
        contributes(i, token) > 0 /\ Truthy(filteredData[i][col])
            => ~parseFloat(filteredData[i][col]).nan

\* the fraction r equals num / den
RatioIs(r, num, den) == r.num * den = num * r.den

\* C21: for every emitted group and every measure column, the reported
\* value is sum / total of the column over the rows contributing to the
\* group when the first data row's cell is numeric (the cells summed being
\* numbers or empty), and otherwise
\* 100 * (number of contributing rows with a non-empty cell) / total.
C21_ReportedValue ==
    Done("group") =>
        \A i \in DOMAIN likertData :
            \A c \in DOMAIN selectedColumns :
                LET token == likertData[i].condition
                    col == selectedColumns[c]
                    n == Len(filteredData)
                IN  IF firstRowNumeric(col)
                    THEN allNumbers(token, col) =>
                             RatioIs(likertData[i].value[col],
                                     sumOver(n, token, col, FALSE),
                                     groupTotal(token))
                    ELSE RatioIs(likertData[i].value[col],
                                 100 * sumOver(n, token, col, TRUE),
                                 groupTotal(token))

\* C28: for every emitted group and every measure column whose first data
\* row's cell is not numeric, the reported percentage is between 0 and 100.
C28_PercentageRange ==
    Done("group") =>
        \A i \in DOMAIN likertData :
            \A c \in DOMAIN selectedColumns :
                LET r == likertData[i].value[selectedColumns[c]]
                IN  ~firstRowNumeric(selectedColumns[c]) =>
                        /\ 0 <= r.num
                        /\ r.num <= 100 * r.den

----------------------------------------------------------------------------
(* The comparator's categories, tallies and order: C22 .. C25.             *)

\* the smallest string of a non-empty set, by code units
Smallest(S) == CHOOSE s \in S : \A t \in S \ {s} : StrLess(s, t)

\* C22: with at least two distinct non-empty response values in the kept
\* rows, the left category is the smallest and the right category the
\* second smallest of them in lexicographic order, so left < right, and the
\* records carry no other labels.
C22_TwoSmallestCategories ==
    Done("comparator") /\ Cardinality(DistinctResponses) >= 2 =>
        LET left == Smallest(DistinctResponses)
            right == Smallest(DistinctResponses \ {left})
        IN  /\ compareData.categories = [left |-> left, right |-> right]
            /\ StrLess(compareData.categories.left,
                       compareData.categories.right)
            /\ \A i \in DOMAIN compareData.data :
                  /\ compareData.data[i].leftLabel = left
                  /\ compareData.data[i].rightLabel = right

C22_Witness ==
    /\ Done("comparator")
    /\ Len(filteredData) = 2
    /\ filteredData[1].resp = sYes
    /\ filteredData[2].resp = <<"M">>
    /\ compareData.categories = [left |-> <<"M">>, right |-> sYes]
    /\ compareData.data # <<>>

\* the kept rows with the condition cell c and a non-empty response
Answered(c) ==
    {i \in DOMAIN filteredData :
        /\ filteredData[i][conditionColumn] = c
        /\ Truthy(filteredData[i][responseColumn])}

\* those of them whose response is r
AnsweredWith(c, r) ==
    {i \in Answered(c) : filteredData[i][responseColumn] = r}

\* C23: in every record of the comparator, total is the number of kept rows
\* with the record's condition and a non-empty response, -leftValue the
\* number of them answering the left category and rightValue the number
\* answering the right one; so -leftValue + rightValue <= total, and they are
\* equal iff none of these rows answers outside the two categories.
C23_Tallies ==
    Done("comparator") =>
        \A i \in DOMAIN compareData.data :
            LET rec == compareData.data[i]
                c == rec.condition
                cats == {compareData.categories.left,
                         compareData.categories.right}
            IN  /\ rec.total = Cardinality(Answered(c))
                /\ 0 - rec.leftValue =
                      Cardinality(AnsweredWith(c, compareData.categories.left))
                /\ rec.rightValue =
                      Cardinality(AnsweredWith(c, compareData.categories.right))
                /\ (0 - rec.leftValue) + rec.rightValue <= rec.total
                /\ (0 - rec.leftValue) + rec.rightValue = rec.total
                      <=> \A j \in Answered(c) :
                              filteredData[j][responseColumn] \in cats

C23_Witness ==
    /\ Done("comparator")
    /\ \E i \in DOMAIN compareData.data :
          /\ compareData.data[i].condition = sX
          /\ compareData.data[i].total = 2
          /\ compareData.data[i].leftValue = 0
          /\ compareData.data[i].rightValue = 1
    /\ \E j \in Answered(sX) : filteredData[j].resp = sYes

sXY == <<"X", ",", " ", "Y">>

\* the condition cells of the kept rows
ConditionCells == {filteredData[i][conditionColumn] : i \in DOMAIN filteredData}

RecordsOf(c) ==
    {i \in DOMAIN compareData.data : compareData.data[i].condition = c}

C25_DescendingTotal ==
    Done("comparator") =>
        \A i \in 1..(Len(compareData.data) - 1) :
            compareData.data[i].total >= compareData.data[i + 1].total

C25_Witness ==
    /\ Done("comparator")
    /\ Len(compareData.data) = 2
    /\ compareData.data[1].total = 2
    /\ compareData.data[2].total = 1
    /\ filteredData[1].cond = compareData.data[2].condition

----------------------------------------------------------------------------
(* The pivot aggregator's keys and sums: C26, C27, C29.                    *)

\* the first kept row whose composite key over cols is k
firstRowWith(k, cols) ==
    CHOOSE i \in DOMAIN filteredData :
        /\ compositeKey(filteredData[i], cols) = k
        /\ \A j \in 1..(i - 1) : compositeKey(filteredData[j], cols) # k

\* keys lists every composite key of the kept rows over cols once, in the
\* order in which the keys first appear
ByFirstAppearance(keys, cols) ==
    /\ Range(keys) = {compositeKey(filteredData[i], cols) :
                         i \in DOMAIN filteredData}
    /\ \A i, j \in DOMAIN keys :
          i < j => /\ keys[i] # keys[j]
                   /\ firstRowWith(keys[i], cols) < firstRowWith(keys[j], cols)

\* C26: the pivot aggregator's row-key list and column-key list each hold
\* every composite key of the kept rows exactly once, in the order of the
\* keys' first appearance in the kept rows.
C26_KeysByFirstAppearance ==
    Done("pivot") =>
        /\ ByFirstAppearance(pivotData.rows, pivotConfig.rows)
        /\ ByFirstAppearance(pivotData.columns, pivotConfig.columns)

C26_Witness ==
    /\ Done("pivot")
    /\ pivotData.rows = <<sY, sX>>
    /\ pivotData.columns = <<sYes, sNo>>

\* the number a cell stands for: its digits, white space around them
\* aside, and 0 for an empty cell or any other text
numericValue(cell) ==
    IF trim(cell) # <<>> /\ DigitPrefix(trim(cell)) = trim(cell)
    THEN DigitsValue(trim(cell), 0)
    ELSE 0

\* the sum of the value column col over the first n kept rows that have the
\* row key r and the column key c
RECURSIVE cellSum(_, _, _, _)
cellSum(n, r, c, col) ==
    IF n = 0 THEN 0
    ELSE cellSum(n - 1, r, c, col)
            + (IF /\ compositeKey(filteredData[n], pivotConfig.rows) = r
                  /\ compositeKey(filteredData[n], pivotConfig.columns) = c
               THEN numericValue(filteredData[n][col])
               ELSE 0)

----------------------------------------------------------------------------
(* The comparator chart's active filters: C30.                             *)

\* C30: in the comparator chart every column with a non-empty allow-list is
\* one of the columns that filter option discovery offers now (so neither
\* the condition nor the response column), and every value of its allow-list
\* is one of the values offered for it now.
C30_ActiveFiltersOffered ==
    component = "Dashboard" =>
        \A column \in DOMAIN filters :
            filters[column] # {} =>
                \E n \in DOMAIN currentOptions :
                    /\ currentOptions[n].column = column
                    /\ filters[column] \subseteq Range(currentOptions[n].values)

=============================================================================
